---- MODULE Spec2Model ----
(***************************************************************************)
(* Scrape / paginate / download orchestration of the generated extension   *)
(* (background.js and content-script.js, held as string literals in        *)
(* src/_Research/custom/run.py).                                           *)
(*                                                                         *)
(* Strings are sequences of one-character strings, so that substring,      *)
(* split and the template literal of downloadFile are computed, not        *)
(* assumed.  "/p.j" stands for a URL ending in /photo.jpg.                 *)
(***************************************************************************)
EXTENDS Integers, Sequences, FiniteSets

\* ------------------------------------------------------------------------
\* Bounds of the model
\* ------------------------------------------------------------------------
MaxRuns == 2

MaxPages == 2

MaxGrow == 1

MaxAccum == 3

MaxPayloads == 2

MaxTasks == 2

MaxEls == 3

\* ------------------------------------------------------------------------
\* Strings as the JavaScript code handles them
\* ------------------------------------------------------------------------
Max(S) == CHOOSE x \in S : \A y \in S : y <= x

\* s.lastIndexOf(c), 1-based; 0 stands for JavaScript's -1
LastIndexOf(s, c) ==
    LET hits == {i \in 1..Len(s) : s[i] = c}
    IN  IF hits = {} THEN 0 ELSE Max(hits)

\* s.substring(from0) with a 0-based start index
Substring(s, from0) == SubSeq(s, from0 + 1, Len(s))

\* first index >= i at which c occurs in s, or 0 when there is none
RECURSIVE IndexFrom(_, _, _)
IndexFrom(s, c, i) ==
    IF i > Len(s) THEN 0
    ELSE IF s[i] = c THEN i
    ELSE IndexFrom(s, c, i + 1)

\* s.split(c): always at least one part, the parts may be empty
RECURSIVE Split(_, _)
Split(s, c) ==
    LET k == IndexFrom(s, c, 1)
    IN  IF k = 0 THEN <<s>>
        ELSE <<SubSeq(s, 1, k - 1)>> \o Split(SubSeq(s, k + 1, Len(s)), c)

Undefined == <<"u", "n", "d", "e", "f", "i", "n", "e", "d">>

\* parts[i0] (0-based) inside a template literal: a missing element prints
\* as the text "undefined"
Part(parts, i0) == IF i0 + 1 <= Len(parts) THEN parts[i0 + 1] ELSE Undefined

Digit(d) == <<"0", "1", "2", "3", "4", "5", "6", "7", "8", "9">>[d + 1]

\* the decimal text of a counter, as `${counter}` prints it
RECURSIVE CounterText(_)
CounterText(n) ==
    IF n < 10 THEN <<Digit(n)>>
    ELSE CounterText(n \div 10) \o <<Digit(n % 10)>>

\* ------------------------------------------------------------------------
\* Download Gate: the synchronous part of downloadFile
\* ------------------------------------------------------------------------
\* url.substring(url.lastIndexOf('/') + 1).split('?')[0]
BaseFilename(url) == Part(Split(Substring(url, LastIndexOf(url, "/")), "?"), 0)

\* `${originalFilename.split('.')[0]}_${counter}.${originalFilename.split('.')[1]}`
Suffixed(originalFilename, counter) ==
    Part(Split(originalFilename, "."), 0) \o <<"_">> \o CounterText(counter)
        \o <<".">> \o Part(Split(originalFilename, "."), 1)

\* while (scraperState.downloadedFiles[filename]) { counter++; filename = ... }
RECURSIVE WhileTaken(_, _, _, _)
WhileTaken(files, originalFilename, filename, counter) ==
    IF filename \in files
    THEN WhileTaken(files, originalFilename,
                    Suffixed(originalFilename, counter + 1), counter + 1)
    ELSE filename

ClaimFilenameNoDedup(files, url) == BaseFilename(url)

\* the filename downloadFile settles on for url, given the claimed names
ClaimFilename(files, url) ==
    WhileTaken(files, BaseFilename(url), BaseFilename(url), 0)

\* ------------------------------------------------------------------------
\* Inputs: URLs, image elements, documents, payloads
\* ------------------------------------------------------------------------
\* ".../p.j", ".../p.j?v" (the same file name behind a query), ".../p_1.j" (a
\* file whose own name looks like a generated one) and ".../a.b.j" (two dots)
URL_P == <<"/", "p", ".", "j">>

URL_PQ == <<"/", "p", ".", "j", "?", "v">>

URL_P1 == <<"/", "p", "_", "1", ".", "j">>

URL_AB == <<"/", "a", ".", "b", ".", "j">>

HREF_D == <<"/", "d">>

\* all sequences over S of length at most n
SeqsUpTo(S, n) == UNION {[1..k -> S] : k \in 0..n}

\* the image lists of the documents the whole system is run on: none, one linked image, and an unlinked
\* image followed by a linked one with the same file name
PageImgLists ==
    {<<>>,
     <<[src |-> URL_P, hasA |-> TRUE, href |-> HREF_D]>>,
     <<[src |-> URL_PQ, hasA |-> FALSE, href |-> <<>>],
       [src |-> URL_P, hasA |-> TRUE, href |-> HREF_D]>>}

\* the selector list of paginate, in the order the code writes it
Selectors == <<"a.next", "a[rel=next]", "button.next-page", ".pagination a:last-child">>

SelectorSet == {Selectors[i] : i \in 1..Len(Selectors)}

\* an element is named by the selector it matches; "div" matches none
Matches(el, sel) == el = sel

\* the pagination controls of the documents the whole system is run on
PageEls == {<<>>, <<"a[rel=next]">>, <<"button.next-page", "a[rel=next]">>}

\* documents without a pagination control
LastPageDocs ==
    {[imgs |-> im, els |-> <<>>, nav |-> "none"] : im \in PageImgLists}

\* documents with one: activating it either navigates the tab to the next
\* page ("full") or replaces the content of the same document ("inplace")
InnerPageDocs ==
    {[imgs |-> im, els |-> e, nav |-> n] :
        im \in PageImgLists,
        e \in PageEls \ {<<>>},
        n \in {"full", "inplace"}}

\* the documents that can be loaded as page number p of a site; the site's
\* last page (number MaxPages) has no pagination control
DocsAt(p) == IF p >= MaxPages THEN LastPageDocs ELSE LastPageDocs \cup InnerPageDocs

\* the payloads another context of the extension can send to the listener:
\* well-formed ones (none, one, the same URL twice, a name that looks
\* generated, a name with two dots) and two with lists of different length
PayloadSet ==
    {[thumbnails |-> <<>>, destinations |-> <<>>],
     [thumbnails |-> <<URL_P>>, destinations |-> <<HREF_D>>],
     [thumbnails |-> <<URL_P, URL_P>>, destinations |-> <<HREF_D, <<>> >>],
     [thumbnails |-> <<URL_P1>>, destinations |-> <<HREF_D>>],
     [thumbnails |-> <<URL_AB, URL_AB>>, destinations |-> <<HREF_D, HREF_D>>],
     [thumbnails |-> <<URL_P>>, destinations |-> <<>>],
     [thumbnails |-> <<>>, destinations |-> <<HREF_D>>]}

NoData == [thumbnails |-> <<>>, destinations |-> <<>>]

\* ------------------------------------------------------------------------
\* State
\* ------------------------------------------------------------------------
VARIABLES
    scraperState,   \* background.js: running, results, downloadedFiles
    tasks,          \* scrapedData handlers suspended at `await downloadFile(url)`
    queries,        \* chrome.tabs.query callbacks not yet run (the directive each sends)
    toAgent,        \* directives sent to the tab, not yet received
    toCoord,        \* messages sent by the page agent, not yet handled
    doc,            \* the document the tab shows
    pageNo,         \* its number in the site's chain of pages
    agentPc,        \* where the content script of that document stands
    navPending,     \* a click started a navigation that has not committed yet
    scrollHeight,   \* document.body.scrollHeight
    growLeft,       \* how many more times scrolling makes the document grow
    hist            \* history of the current run (observation only)

coordVars == <<scraperState, tasks, queries>>

agentVars == <<doc, pageNo, agentPc, navPending, scrollHeight, growLeft>>

vars == <<scraperState, tasks, queries, toAgent, toCoord, doc, pageNo, agentPc,
          navPending, scrollHeight, growLeft, hist>>

\* let scraperState = { running: false, results: {...}, downloadedFiles: {}, ... }
InitialScraperState ==
    [running |-> FALSE,
     results |-> [thumbnails |-> <<>>, destinations |-> <<>>],
     downloadedFiles |-> {},
     currentPage |-> 1,
     lastScrapedHeight |-> 0]

\* what is recorded of a run; reset when a start request is accepted.
\* cycles: scrollAndCheck calls of the scrape in progress; pageImgs: the img
\* elements of the pages the tab has shown during the run
NewRun(h, op) ==
    [lastOp |-> op, starts |-> h.starts + 1, completes |-> h.completes,
     log |-> <<>>, claims |-> <<>>, clicked |-> 0,
     nPayloads |-> 0, nAdvance |-> 0,
     cycles |-> 0, pageImgs |-> Len(doc.imgs)]

InitHist ==
    [lastOp |-> "init", starts |-> 0, completes |-> 0,
     log |-> <<>>, claims |-> <<>>, clicked |-> 0,
     nPayloads |-> 0, nAdvance |-> 0,
     cycles |-> 0, pageImgs |-> 0]

InitCommon ==
    /\ scraperState = InitialScraperState
    /\ tasks = <<>>
    /\ queries = <<>>
    /\ toCoord = <<>>
    /\ pageNo = 1
    /\ agentPc = "idle"
    /\ navPending = FALSE
    /\ scrollHeight = 1
    /\ hist = InitHist

Init ==
    /\ InitCommon
    /\ toAgent = <<>>
    /\ doc \in DocsAt(1)
    /\ growLeft \in 0..MaxGrow

\* ------------------------------------------------------------------------
\* Coordinator: background.js
\* ------------------------------------------------------------------------
StartAcceptedAlways(st) == TRUE

\* message.action === 'startScrape' && !scraperState.running
StartAccepted(st) == ~st.running

\* the startScrape branch of the listener
OnStartScrape ==
    /\ scraperState.running \/ hist.starts < MaxRuns
    /\ IF StartAccepted(scraperState)
       THEN /\ scraperState' = [scraperState EXCEPT !.running = TRUE]
            /\ queries' = Append(queries, "scrapePage")
            /\ hist' = NewRun(hist, "startAccepted")
       ELSE /\ UNCHANGED <<scraperState, queries>>
            /\ hist' = [hist EXCEPT !.lastOp = "startIgnored"]
    /\ UNCHANGED <<tasks, toAgent, toCoord, agentVars>>

\* the callback of chrome.tabs.query: chrome.tabs.sendMessage(tabId, {action})
TabsQueryCallback ==
    /\ queries # <<>>
    /\ toAgent' = Append(toAgent, Head(queries))
    /\ queries' = Tail(queries)
    /\ hist' = [hist EXCEPT !.lastOp = "send",
                            !.log = Append(@, IF Head(queries) = "scrapePage"
                                              THEN "begin" ELSE "advance")]
    /\ UNCHANGED <<scraperState, tasks, toCoord, agentVars>>

DownloadFileResultThrows(url, ok) ==
    [success |-> ok, url |-> url, threw |-> ~ok]

\* try { await chrome.downloads.download(...); return {success: true, url} }
\* catch (error) { return {success: false, url, error} }
\* threw: the rejection leaves downloadFile as an exception
DownloadFileResult(url, ok) ==
    [success |-> ok, url |-> url, threw |-> FALSE]

\* as ClaimRecord, the name being checked against the names as they were
\* before the latest claim was inserted (a suspension between check and insert)
ClaimRecordStale(files, url) ==
    LET seen == IF hist.claims = <<>> THEN files
                ELSE files \ {hist.claims[Len(hist.claims)].got}
    IN  [base |-> BaseFilename(url),
         got |-> ClaimFilename(seen, url),
         fresh |-> ClaimFilename(seen, url) \notin files]

\* one claim: the name chosen, recorded with the state it was chosen in
ClaimRecord(files, url) ==
    [base |-> BaseFilename(url),
     got |-> ClaimFilename(files, url),
     fresh |-> ClaimFilename(files, url) \notin files]

\* as HandleScrapedData, with the paginate directive also sent on receipt
HandleScrapedDataEager(data, h) ==
    LET st1 == [scraperState EXCEPT
                    !.results.thumbnails = @ \o data.thumbnails,
                    !.results.destinations = @ \o data.destinations]
        h1 == [h EXCEPT !.nPayloads = @ + 1, !.nAdvance = @ + 1]
    IN  /\ queries' = Append(queries, "paginate")
        /\ IF data.thumbnails = <<>>
           THEN /\ scraperState' = st1
                /\ tasks' = tasks
                /\ hist' = h1
           ELSE LET c == ClaimRecord(st1.downloadedFiles, data.thumbnails[1])
                IN  /\ scraperState' = [st1 EXCEPT !.downloadedFiles = @ \cup {c.got}]
                    /\ tasks' = Append(tasks, [urls |-> data.thumbnails, i |-> 1])
                    /\ hist' = [h1 EXCEPT !.claims = Append(@, c)]

\* as HandleScrapedData, with the payload put in front of what was accumulated
HandleScrapedDataPrepend(data, h) ==
    LET st1 == [scraperState EXCEPT
                    !.results.thumbnails = data.thumbnails \o @,
                    !.results.destinations = data.destinations \o @]
        h1 == [h EXCEPT !.nPayloads = @ + 1]
    IN  IF data.thumbnails = <<>>
        THEN /\ scraperState' = st1
             /\ queries' = Append(queries, "paginate")
             /\ tasks' = tasks
             /\ hist' = [h1 EXCEPT !.nAdvance = @ + 1]
        ELSE LET c == ClaimRecord(st1.downloadedFiles, data.thumbnails[1])
             IN  /\ scraperState' = [st1 EXCEPT !.downloadedFiles = @ \cup {c.got}]
                 /\ tasks' = Append(tasks, [urls |-> data.thumbnails, i |-> 1])
                 /\ queries' = queries
                 /\ hist' = [h1 EXCEPT !.claims = Append(@, c)]

\* the scrapedData branch up to its first suspension: both lists are pushed,
\* then downloadFile(thumbnails[0]) runs up to its await
HandleScrapedData(data, h) ==
    LET st1 == [scraperState EXCEPT
                    !.results.thumbnails = @ \o data.thumbnails,
                    !.results.destinations = @ \o data.destinations]
        h1 == [h EXCEPT !.nPayloads = @ + 1]
    IN  IF data.thumbnails = <<>>
        THEN /\ scraperState' = st1
             /\ queries' = Append(queries, "paginate")
             /\ tasks' = tasks
             /\ hist' = [h1 EXCEPT !.nAdvance = @ + 1]
        ELSE LET c == ClaimRecord(st1.downloadedFiles, data.thumbnails[1])
             IN  /\ scraperState' = [st1 EXCEPT !.downloadedFiles = @ \cup {c.got}]
                 /\ tasks' = Append(tasks, [urls |-> data.thumbnails, i |-> 1])
                 /\ queries' = queries
                 /\ hist' = [h1 EXCEPT !.claims = Append(@, c)]

\* the scrapeComplete branch
HandleScrapeComplete(h) ==
    /\ scraperState' = [scraperState EXCEPT !.running = FALSE]
    /\ hist' = [h EXCEPT !.completes = IF scraperState.running THEN @ + 1 ELSE @]
    /\ UNCHANGED <<tasks, queries>>

\* console.log('Scraping complete! Final results:', scraperState.results):
\* what the listener reports when it processes scrapeComplete
FinalSummary(st) == st.results

RemoveAt(s, t) == SubSeq(s, 1, t - 1) \o SubSeq(s, t + 1, Len(s))

\* as SettleDownload, with a failed download giving the run up
SettleDownloadAborts(t, ok) ==
    /\ tasks' = RemoveAt(tasks, t)
    /\ scraperState' = [scraperState EXCEPT !.running = IF ok THEN @ ELSE FALSE]
    /\ queries' = IF ok THEN Append(queries, "paginate") ELSE queries
    /\ hist' = [hist EXCEPT !.lastOp = IF ok THEN "downloaded" ELSE "downloadFailed",
                            !.nAdvance = IF ok THEN @ + 1 ELSE @]
    /\ UNCHANGED <<toAgent, toCoord, agentVars>>

\* as SettleDownload, with a failed download giving its filename back
SettleDownloadReleases(t, ok) ==
    /\ tasks' = RemoveAt(tasks, t)
    /\ scraperState' =
          [scraperState EXCEPT !.downloadedFiles =
              IF ok \/ hist.claims = <<>> THEN @
              ELSE @ \ {hist.claims[Len(hist.claims)].got}]
    /\ queries' = Append(queries, "paginate")
    /\ hist' = [hist EXCEPT !.lastOp = IF ok THEN "downloaded" ELSE "downloadFailed",
                            !.nAdvance = @ + 1]
    /\ UNCHANGED <<toAgent, toCoord, agentVars>>

\* the download awaited by handler t settles (ok or not) and the handler runs
\* on to its next suspension: the next downloadFile, or the paginate directive
SettleDownload(t, ok) ==
    LET task == tasks[t]
        result == DownloadFileResult(task.urls[task.i], ok)
        h1 == [hist EXCEPT !.lastOp = IF result.success THEN "downloaded"
                                                            ELSE "downloadFailed"]
    IN  /\ IF result.threw
           THEN /\ tasks' = RemoveAt(tasks, t)
                /\ hist' = h1
                /\ UNCHANGED <<scraperState, queries>>
           ELSE IF task.i < Len(task.urls)
           THEN LET c == ClaimRecord(scraperState.downloadedFiles, task.urls[task.i + 1])
                IN  /\ scraperState' =
                          [scraperState EXCEPT !.downloadedFiles = @ \cup {c.got}]
                    /\ tasks' = [tasks EXCEPT ![t].i = @ + 1]
                    /\ hist' = [h1 EXCEPT !.claims = Append(@, c)]
                    /\ UNCHANGED queries
           ELSE /\ tasks' = RemoveAt(tasks, t)
                /\ queries' = Append(queries, "paginate")
                /\ hist' = [h1 EXCEPT !.nAdvance = @ + 1]
                /\ UNCHANGED scraperState
        /\ UNCHANGED <<toAgent, toCoord, agentVars>>

DownloadSettles == \E t \in 1..Len(tasks) : \E ok \in BOOLEAN : SettleDownload(t, ok)

\* the listener takes the page agent's next message
CoordReceive ==
    /\ toCoord # <<>>
    /\ toCoord' = Tail(toCoord)
    /\ LET m == Head(toCoord)
       IN  IF m.action = "scrapedData"
           THEN HandleScrapedData(m.data, [hist EXCEPT !.lastOp = "scrapedData"])
           ELSE HandleScrapeComplete([hist EXCEPT !.lastOp = "scrapeComplete"])
    /\ UNCHANGED <<toAgent, agentVars>>

\* ------------------------------------------------------------------------
\* Page Agent: content-script.js
\* ------------------------------------------------------------------------
\* as ExtractData, with a destination only for the images inside a link
ExtractDataLinkedOnly(d) ==
    LET linked == SelectSeq(d.imgs, LAMBDA img : img.hasA)
    IN  [thumbnails |-> [i \in 1..Len(d.imgs) |-> d.imgs[i].src],
         destinations |-> [i \in 1..Len(linked) |-> linked[i].href]]

\* extractData: one thumbnail and one destination per img, in document order
ExtractData(d) ==
    [thumbnails |-> [i \in 1..Len(d.imgs) |-> d.imgs[i].src],
     destinations |-> [i \in 1..Len(d.imgs) |->
                          IF d.imgs[i].hasA THEN d.imgs[i].href ELSE <<>>]]

MatchesAny(el) == \E k \in 1..Len(Selectors) : Matches(el, Selectors[k])

\* document.querySelector('a.next, a[rel="next"], button.next-page,
\* .pagination a:last-child'): the first element, in document order, that
\* matches any selector of the list; 0 stands for null
QuerySelector(els) ==
    LET hits == {i \in 1..Len(els) : MatchesAny(els[i])}
    IN  IF hits = {} THEN 0 ELSE CHOOSE i \in hits : \A j \in hits : i <= j

\* the listener's scrapePage branch: scrape() runs up to `await waitForPageLoad()`.
\* A directive reaches the document the tab shows once no navigation is pending.
AgentScrapePage ==
    /\ toAgent # <<>> /\ Head(toAgent) = "scrapePage"
    /\ agentPc = "idle" /\ ~navPending
    /\ toAgent' = Tail(toAgent)
    /\ agentPc' = "waitForPageLoad"
    /\ hist' = [hist EXCEPT !.lastOp = "scrapePage"]
    /\ UNCHANGED <<coordVars, toCoord, doc, pageNo, navPending, scrollHeight, growLeft>>

\* the listener's paginate branch: paginate() up to `await waitForPageLoad()`,
\* or to the scrapeComplete message
AgentPaginate ==
    /\ toAgent # <<>> /\ Head(toAgent) = "paginate"
    /\ agentPc = "idle" /\ ~navPending
    /\ toAgent' = Tail(toAgent)
    /\ LET nextButton == QuerySelector(doc.els)
       IN  IF nextButton # 0
           THEN /\ agentPc' = "waitForPageLoad"
                /\ toCoord' = toCoord
                /\ IF doc.nav = "inplace"
                   THEN /\ \E d \in DocsAt(pageNo + 1) : doc' = d
                        /\ \E g \in 0..MaxGrow : growLeft' = g
                        /\ pageNo' = pageNo + 1
                        /\ scrollHeight' = 1
                        /\ navPending' = navPending
                   ELSE /\ navPending' = TRUE
                        /\ UNCHANGED <<doc, pageNo, scrollHeight, growLeft>>
                /\ hist' = [hist EXCEPT !.lastOp = "click", !.clicked = nextButton,
                                        !.pageImgs = IF doc.nav = "inplace"
                                                     THEN @ + Len(doc'.imgs) ELSE @]
           ELSE /\ toCoord' = Append(toCoord, [action |-> "scrapeComplete", data |-> NoData])
                /\ hist' = [hist EXCEPT !.lastOp = "exhausted",
                                        !.log = Append(@, "scrapeComplete")]
                /\ UNCHANGED agentVars
    /\ UNCHANGED coordVars

\* waitForPageLoad returns (readyState is complete and the settle delay is over)
WaitForPageLoad ==
    /\ agentPc = "waitForPageLoad"
    /\ agentPc' = "scroll"
    /\ hist' = [hist EXCEPT !.lastOp = "loaded", !.cycles = 0]
    /\ UNCHANGED <<coordVars, toAgent, toCoord, doc, pageNo, navPending,
                   scrollHeight, growLeft>>

\* growLeft of a page that grows at every scroll (an endless feed)
Endless == -1

\* heights and cycle counts are kept up to this value (only an endless page
\* gets further): a longer loop is recorded with it, a taller document by
\* the last two values in turn; the heights are compared before that
HeightCeiling == MaxGrow + 2

HasNewContentOrSame(previousHeight, newHeight) == newHeight >= previousHeight

\* return newHeight > previousHeight
HasNewContent(previousHeight, newHeight) == newHeight > previousHeight

\* one scrollAndCheck and the loop test of scrape: while the height grew the
\* loop goes on; otherwise scrape goes on to extractData and sends the payload.
\* growLeft > 0: the page can grow that many more times; an endless page
\* always grows.
ScrollAndCheck(grew) ==
    /\ agentPc = "scroll"
    /\ grew => growLeft # 0
    /\ (growLeft = Endless) => grew
    /\ LET previousHeight == scrollHeight
           newHeight == IF grew THEN scrollHeight + 1 ELSE scrollHeight
           hasNewContent == HasNewContent(previousHeight, newHeight)
       IN  /\ scrollHeight' = IF newHeight > HeightCeiling THEN HeightCeiling - 1
                                                            ELSE newHeight
           /\ growLeft' = IF grew /\ growLeft > 0 THEN growLeft - 1 ELSE growLeft
           /\ IF hasNewContent
              THEN /\ hist' = [hist EXCEPT !.lastOp = "scrolled",
                                           !.cycles = IF @ < HeightCeiling
                                                      THEN @ + 1 ELSE @]
                   /\ UNCHANGED <<agentPc, toCoord>>
              ELSE /\ agentPc' = "idle"
                   /\ toCoord' = Append(toCoord, [action |-> "scrapedData",
                                                  data |-> ExtractData(doc)])
                   /\ hist' = [hist EXCEPT !.lastOp = "sentData",
                                           !.cycles = IF @ < HeightCeiling
                                                      THEN @ + 1 ELSE @,
                                           !.log = Append(@, "scrapedData")]
    /\ UNCHANGED <<coordVars, toAgent, doc, pageNo, navPending>>

LazyLoadStep == \E grew \in BOOLEAN : ScrollAndCheck(grew)

\* the navigation started by the click commits: the old document and whatever
\* its content script was still doing are gone, the next page's content script
\* starts in its listener; a directive in flight may or may not reach it
NavigationCommit ==
    /\ navPending
    /\ navPending' = FALSE
    /\ \E d \in DocsAt(pageNo + 1) : doc' = d
    /\ \E g \in 0..MaxGrow : growLeft' = g
    /\ pageNo' = pageNo + 1
    /\ agentPc' = "idle"
    /\ scrollHeight' = 1
    /\ \E kept \in BOOLEAN : toAgent' = IF kept THEN toAgent ELSE <<>>
    /\ hist' = [hist EXCEPT !.lastOp = "navigated",
                            !.pageImgs = @ + Len(doc'.imgs)]
    /\ UNCHANGED <<coordVars, toCoord>>

\* ------------------------------------------------------------------------
\* The whole system: popup start requests, coordinator, page agent
\* ------------------------------------------------------------------------
Next ==
    \/ OnStartScrape
    \/ TabsQueryCallback
    \/ CoordReceive
    \/ DownloadSettles
    \/ AgentScrapePage
    \/ AgentPaginate
    \/ WaitForPageLoad
    \/ LazyLoadStep
    \/ NavigationCommit

Spec == Init /\ [][Next]_vars

\* the sites the liveness of a run is examined on: the first page shows one image
FairInit ==
    /\ Init
    /\ Len(doc.imgs) = 1 /\ doc.imgs[1].hasA

\* every step of either context is eventually taken; start requests are not forced
FairSpec ==
    /\ FairInit
    /\ [][Next]_vars
    /\ WF_vars(TabsQueryCallback)
    /\ WF_vars(CoordReceive)
    /\ WF_vars(DownloadSettles)
    /\ WF_vars(AgentScrapePage)
    /\ WF_vars(AgentPaginate)
    /\ WF_vars(WaitForPageLoad)
    /\ WF_vars(LazyLoadStep)
    /\ WF_vars(NavigationCommit)

\* a directive never finds the content script in the middle of a scrape, so
\* the agentPc = "idle" guards of the listener's branches exclude nothing
AgentIdleOnDirective == toAgent # <<>> => (agentPc = "idle" \/ navPending)

\* ------------------------------------------------------------------------
\* The coordinator alone: its listener takes whatever any context of the
\* extension sends (the listener does not look at the sender)
\* ------------------------------------------------------------------------
BlankDoc == [imgs |-> <<>>, els |-> <<>>, nav |-> "none"]

CoordInit ==
    /\ InitCommon
    /\ toAgent = <<>>
    /\ doc = BlankDoc
    /\ growLeft = 0

\* a scrapedData message arrives, running or not, well-formed or not
EnvScrapedData ==
    \E d \in PayloadSet :
        /\ hist.nPayloads < MaxPayloads
        /\ Len(tasks) < MaxTasks
        /\ toAgent = <<>> /\ queries = <<>>
        /\ Len(scraperState.results.thumbnails) + Len(d.thumbnails) <= MaxAccum
        /\ Len(scraperState.results.destinations) + Len(d.destinations) <= MaxAccum
        /\ HandleScrapedData(d, [hist EXCEPT !.lastOp = "scrapedData"])
        /\ UNCHANGED <<toAgent, toCoord, agentVars>>

\* a scrapeComplete message arrives, running or not
EnvScrapeComplete ==
    /\ toAgent = <<>> /\ queries = <<>>
    /\ HandleScrapeComplete([hist EXCEPT !.lastOp = "scrapeComplete"])
    /\ UNCHANGED <<toAgent, toCoord, agentVars>>

\* the tab takes a directive (what it does with it is not part of this system)
TabReceives ==
    /\ toAgent # <<>>
    /\ toAgent' = Tail(toAgent)
    /\ hist' = [hist EXCEPT !.lastOp = "tabReceived"]
    /\ UNCHANGED <<coordVars, toCoord, agentVars>>

CoordNext ==
    \/ OnStartScrape
    \/ EnvScrapedData
    \/ EnvScrapeComplete
    \/ DownloadSettles
    \/ TabsQueryCallback
    \/ TabReceives

CoordSpec == CoordInit /\ [][CoordNext]_vars

\* ------------------------------------------------------------------------
\* paginate alone, on every small document
\* ------------------------------------------------------------------------
PaginateInit ==
    /\ InitCommon
    /\ toAgent = <<"paginate">>
    /\ doc \in {[imgs |-> <<>>, els |-> e, nav |-> "full"] :
                    e \in SeqsUpTo(SelectorSet \cup {"div"}, MaxEls)}
    /\ growLeft = 0

PaginateSpec == PaginateInit /\ [][AgentPaginate]_vars

\* ------------------------------------------------------------------------
\* scrape alone, on pages that stop growing and on endless ones
\* ------------------------------------------------------------------------
LazyInit ==
    /\ InitCommon
    /\ toAgent = <<"scrapePage">>
    /\ doc \in DocsAt(1)
    /\ growLeft \in {Endless} \cup (0..MaxGrow)

LazyNext ==
    \/ AgentScrapePage
    \/ WaitForPageLoad
    \/ LazyLoadStep

\* the timers of wait() fire: every step of scrape is eventually taken
LazySpec ==
    /\ LazyInit
    /\ [][LazyNext]_vars
    /\ WF_vars(AgentScrapePage)
    /\ WF_vars(WaitForPageLoad)
    /\ WF_vars(LazyLoadStep)

\* ------------------------------------------------------------------------
\* Properties
\* ------------------------------------------------------------------------
thumbnails == scraperState.results.thumbnails

destinations == scraperState.results.destinations

downloadedFilenames == scraperState.downloadedFiles

Count(seq, x) == Cardinality({i \in 1..Len(seq) : seq[i] = x})

\* C1: a start request handled while running changes nothing of the scrape
\* state, queues no begin directive, and the number of accepted starts exceeds
\* the number of completed runs by one exactly while running (so a second run
\* never starts before the first one's scrapeComplete was processed).
C1_StartWhileRunningIsNoOp ==
    /\ [][(OnStartScrape /\ scraperState.running)
            => UNCHANGED <<scraperState, tasks, queries, toAgent>>]_vars
    /\ [](hist.starts - hist.completes = IF scraperState.running THEN 1 ELSE 0)

C1_Witness ==
    /\ hist.lastOp = "startIgnored"
    /\ scraperState.running
    /\ thumbnails # <<>>
    /\ downloadedFilenames # {}

\* C2: right after an accepted start the accumulated thumbnails, destinations
\* and claimed filenames are empty and exactly one begin directive is queued.
C2_AcceptedStartResets ==
    hist.lastOp = "startAccepted" =>
        /\ thumbnails = <<>>
        /\ destinations = <<>>
        /\ downloadedFilenames = {}
        /\ Count(queries \o toAgent, "scrapePage") = 1

\* C3: the accumulated thumbnails and destinations have equal length in every
\* state, whatever payloads were received.
C3_EqualLengths == Len(thumbnails) = Len(destinations)

\* C4: the messages of a run occur in the order begin, scrapedData, advance,
\* (scrapedData, advance)*, scrapeComplete: begin comes first and only first,
\* every advance directly follows a scrapedData, every message of the page
\* agent directly follows a directive, and scrapeComplete answers an advance
\* and is the last message.
C4_MessageOrder ==
    \A i \in 1..Len(hist.log) :
        /\ (hist.log[i] = "begin") <=> (i = 1)
        /\ (i > 1 /\ i % 2 = 0) => hist.log[i] \in {"scrapedData", "scrapeComplete"}
        /\ (i > 1 /\ i % 2 = 1) => hist.log[i] = "advance"
        /\ hist.log[i] = "scrapeComplete" => (i = Len(hist.log) /\ i >= 4)
        /\ hist.log[i] = "advance" => hist.log[i - 1] = "scrapedData"

C4_Witness ==
    hist.log = <<"begin", "scrapedData", "advance", "scrapedData", "advance",
                 "scrapeComplete">>

\* the name the k-th repeated claim (k = 0 for the first) of name.ext is to get:
\* name.ext, then name_k.ext with the suffix before the extension
StemOf(name) ==
    IF LastIndexOf(name, ".") = 0 THEN name
    ELSE SubSeq(name, 1, LastIndexOf(name, ".") - 1)

ExtOf(name) ==
    IF LastIndexOf(name, ".") = 0 THEN <<>>
    ELSE SubSeq(name, LastIndexOf(name, "."), Len(name))

ExpectedName(name, k) ==
    IF k = 0 THEN name
    ELSE StemOf(name) \o <<"_">> \o CounterText(k) \o ExtOf(name)

\* C5: within a run, the k-th claim of a base filename name.ext (counting from
\* 0) returns name.ext for k = 0 and name_k.ext otherwise.
C5_DedupNaming ==
    scraperState.running =>
    \A i \in 1..Len(hist.claims) :
        hist.claims[i].got =
            ExpectedName(hist.claims[i].base,
                         Cardinality({j \in 1..(i - 1) :
                                        hist.claims[j].base = hist.claims[i].base}))

\* C6: no two claims of a run return the same filename; every returned filename
\* was not claimed before its claim and is claimed afterwards.
C6_ClaimsUnique ==
    /\ \A i, j \in 1..Len(hist.claims) :
          i # j => hist.claims[i].got # hist.claims[j].got
    /\ \A i \in 1..Len(hist.claims) :
          hist.claims[i].fresh /\ hist.claims[i].got \in downloadedFilenames

\* a run that claimed p_1.j for a URL of that name, and p.j twice
C6_Witness ==
    \E i, j, k \in 1..Len(hist.claims) :
        /\ scraperState.running
        /\ i < j /\ j < k
        /\ hist.claims[i].base = BaseFilename(URL_P1)
        /\ hist.claims[j].base = BaseFilename(URL_P)
        /\ hist.claims[k].base = BaseFilename(URL_P)
        /\ hist.claims[k].got = <<"p", "_", "2", ".", "j">>

\* C7: every payload processed has either issued its one advance directive or
\* its handler is still awaiting a download; an advance is issued only by a
\* handler that has no download left to attempt; a failed download leaves
\* running as it is and its handler goes on (to the next download or to the
\* advance directive).
C7_FailuresNeverBlockPagination ==
    /\ [](hist.nPayloads = hist.nAdvance + Len(tasks))
    /\ [][(hist'.starts = hist.starts /\ hist'.nAdvance # hist.nAdvance) =>
            /\ hist'.nAdvance = hist.nAdvance + 1
            /\ queries' = Append(queries, "paginate")
            /\ \/ hist'.lastOp = "scrapedData" /\ Len(thumbnails') = Len(thumbnails)
               \/ \E t \in 1..Len(tasks) :
                     /\ tasks[t].i = Len(tasks[t].urls)
                     /\ tasks' = RemoveAt(tasks, t)]_vars
    /\ [][hist'.lastOp = "downloadFailed" =>
            /\ scraperState'.running = scraperState.running
            /\ \/ Len(tasks') = Len(tasks)
               \/ queries' = Append(queries, "paginate")]_vars

\* the last download of a payload failed and the advance was issued all the same
C7_Witness ==
    /\ hist.lastOp = "downloadFailed"
    /\ scraperState.running
    /\ hist.nPayloads >= 1
    /\ hist.nAdvance = hist.nPayloads
    /\ queries # <<>> /\ queries[Len(queries)] = "paginate"

\* C8: a payload whose lists differ in length, received while running, is
\* rejected: nothing of it is appended, running stays as it is and the advance
\* directive is issued.
C8_MalformedPayloadRejected ==
    [][\A d \in PayloadSet :
          (/\ scraperState.running
           /\ Len(d.thumbnails) # Len(d.destinations)
           /\ HandleScrapedData(d, [hist EXCEPT !.lastOp = "scrapedData"]))
          => /\ scraperState'.results = scraperState.results
             /\ scraperState'.running = scraperState.running
             /\ queries' = Append(queries, "paginate")]_vars

\* the place in the selector list of the selector an element matches
Rank(el) == CHOOSE k \in 1..Len(Selectors) : Matches(el, Selectors[k])

\* C9: the element paginate activates matches the earliest heuristic that any
\* element of the document matches (so a rel=next link wins over a
\* next-page button wherever the two stand in the document).
C9_HeuristicPriority ==
    hist.lastOp = "click" =>
        \A i \in 1..Len(doc.els) :
            MatchesAny(doc.els[i]) => Rank(doc.els[hist.clicked]) <= Rank(doc.els[i])

\* C10: every run that was started is eventually completed (the coordinator
\* returns to idle), pages that stabilise and a chain of pages that ends given.
C10_RunCompletes == scraperState.running ~> ~scraperState.running

\* the steps in which the listener begins to handle a message
HandlerBegins ==
    /\ hist' # hist
    /\ hist'.lastOp \in {"startAccepted", "startIgnored", "scrapedData", "scrapeComplete"}

\* C11: a scrapedData message handled while not running appends nothing,
\* claims no filename, starts no download and queues no advance directive.
C11_PayloadOnlyWhileRunning ==
    [][(~scraperState.running /\ HandlerBegins /\ hist'.lastOp = "scrapedData")
        => UNCHANGED <<scraperState, tasks, queries>>]_vars

\* C12: scrapeComplete handled while running leaves the coordinator idle, and
\* from a completion on, as long as it stays idle, thumbnails, destinations
\* and the claimed filenames do not change.
C12_FrozenAfterComplete ==
    /\ [][(scraperState.running /\ HandlerBegins /\ hist'.lastOp = "scrapeComplete")
            => ~scraperState'.running]_vars
    /\ [][(hist.completes >= 1 /\ ~scraperState.running /\ ~scraperState'.running)
            => UNCHANGED <<thumbnails, destinations, downloadedFilenames>>]_vars

\* C13: the first run over a chain of pages ends: the coordinator has then
\* handled one scrapedData per page of the chain (the tab shows the last page,
\* the one without a control) and one scrapeComplete, after them, and has
\* accumulated as many thumbnails as the pages of the chain have images.
C13_ChainYieldsEveryPage ==
    (hist.starts = 1 /\ hist.lastOp = "startAccepted") ~>
        (/\ hist.starts = 1
         /\ ~scraperState.running
         /\ hist.completes = 1
         /\ doc.els = <<>>
         /\ hist.nPayloads = pageNo
         /\ Count(hist.log, "scrapeComplete") = 1
         /\ hist.log[Len(hist.log)] = "scrapeComplete"
         /\ Len(thumbnails) = hist.pageImgs)

\* the first run is over and went over two pages
TwoPageRunDone ==
    /\ hist.starts = 1
    /\ hist.completes = 1
    /\ ~scraperState.running
    /\ pageNo = 2

\* C14 as stated: a two-page run has exactly one advance directive between
\* begin and scrapeComplete.
C14_OneAdvance == TwoPageRunDone => Count(hist.log, "advance") = 1

\* C14 as amended: a two-page run has one advance directive per scrapedData
\* message, so at least two (two when each page is scraped once): the one that
\* activates the control of page 1 and the one that finds none on page 2 and
\* is answered by scrapeComplete.
C14_AdvancePerPayload ==
    TwoPageRunDone =>
        /\ Count(hist.log, "advance") = Count(hist.log, "scrapedData")
        /\ Count(hist.log, "advance") >= 2
        /\ hist.nPayloads = 2 => Count(hist.log, "advance") = 2
        /\ hist.log[Len(hist.log) - 1] = "advance"

C14_Witness ==
    /\ TwoPageRunDone
    /\ Count(hist.log, "advance") = 2
    /\ Len(thumbnails) = 2

\* C15: the listener begins to handle a message only when no scrapedData
\* handler is suspended inside its download loop.
C15_OneMessageAtATime == [][HandlerBegins => tasks = <<>>]_vars

\* C16: the lazy-load loop ends on every page, also on one whose height grows
\* at every check, and the page agent then sends its scrapedData payload.
C16_LazyLoadLoopEnds == (agentPc = "scroll") ~> (hist.lastOp = "sentData")

\* C17: the summary reported when scrapeComplete is processed gives the counts
\* of accumulated thumbnails and destinations and the counts of succeeded and
\* failed downloads, the two adding up to the downloads attempted in the run.
C17_SummaryCounts ==
    hist.lastOp = "scrapeComplete" =>
        LET summary == FinalSummary(scraperState)
        IN  /\ {"thumbnails", "destinations", "succeeded", "failed"}
                    \subseteq DOMAIN summary
            /\ Len(summary.thumbnails) = Len(thumbnails)
            /\ Len(summary.destinations) = Len(destinations)
            /\ summary.succeeded + summary.failed = Len(hist.claims)

\* C18: every scrollAndCheck is one cycle; a cycle that sees the height grow
\* keeps the loop going and sends nothing; the first cycle that sees no growth
\* ends the loop and is the one that extracts and sends the payload; so a page
\* that grew k times (height 1 to 1 + k) is left after exactly k + 1 cycles.
C18_LazyLoadCycles ==
    /\ [][(agentPc = "scroll" /\ growLeft # Endless /\ hist' # hist) =>
            /\ hist'.cycles = hist.cycles + 1
            /\ IF scrollHeight' > scrollHeight
               THEN agentPc' = "scroll" /\ toCoord' = toCoord
               ELSE /\ agentPc' = "idle"
                    /\ toCoord' = Append(toCoord, [action |-> "scrapedData",
                                                   data |-> ExtractData(doc)])]_vars
    /\ []((hist.lastOp = "sentData" /\ growLeft # Endless) =>
            hist.cycles = (scrollHeight - 1) + 1)

\* heights 1, 2, 2: two cycles
C18_Witness ==
    /\ hist.lastOp = "sentData"
    /\ scrollHeight = 2
    /\ hist.cycles = 2
    /\ toCoord # <<>>

\* C19: an advance that finds a control is answered by the scrapedData of the
\* page it leads to; one that finds none is answered by scrapeComplete and by
\* nothing else; the page agent never sent more messages than it got
\* directives, and scrapeComplete is its last message of the run.
C19_OneMessagePerAdvance ==
    /\ (hist.lastOp = "click") ~> (hist.lastOp = "sentData")
    /\ [][(hist'.lastOp = "exhausted" /\ hist' # hist) =>
            toCoord' = Append(toCoord, [action |-> "scrapeComplete",
                                        data |-> NoData])]_vars
    /\ [](Count(hist.log, "scrapedData") + Count(hist.log, "scrapeComplete")
            <= Count(hist.log, "begin") + Count(hist.log, "advance"))
    /\ [](\A i \in 1..Len(hist.log) :
            hist.log[i] = "scrapeComplete" => i = Len(hist.log))

\* C20: running goes from true to false only in the step that handles
\* scrapeComplete, and a start request handled while running is ignored:
\* running stays true and no begin directive is queued.
C20_NoAbortPath ==
    /\ [][(scraperState.running /\ ~scraperState'.running)
            => (HandlerBegins /\ hist'.lastOp = "scrapeComplete")]_vars
    /\ [][(scraperState.running /\ HandlerBegins
             /\ hist'.lastOp \in {"startAccepted", "startIgnored"})
            => /\ hist'.lastOp = "startIgnored"
               /\ scraperState'.running
               /\ queries' = queries]_vars

\* a run whose page agent is silent: a payload was handled, its advance went
\* out and was taken, nothing is in flight, and a later start request was
\* ignored
C20_Witness ==
    /\ hist.lastOp = "startIgnored"
    /\ scraperState.running
    /\ hist.nAdvance >= 1
    /\ tasks = <<>> /\ queries = <<>> /\ toAgent = <<>>

\* C21: the payload the page agent sends has one thumbnail and one destination
\* per img of the document, in document order: the thumbnail is the image's
\* src, the destination the href of its enclosing link, or the empty string
\* when it has none.
C21_PayloadShape ==
    [][(hist'.lastOp = "sentData" /\ hist' # hist) =>
        LET data == toCoord'[Len(toCoord')].data
        IN  /\ toCoord'[Len(toCoord')].action = "scrapedData"
            /\ Len(data.thumbnails) = Len(doc.imgs)
            /\ Len(data.destinations) = Len(doc.imgs)
            /\ \A i \in 1..Len(doc.imgs) :
                  /\ data.thumbnails[i] = doc.imgs[i].src
                  /\ doc.imgs[i].hasA => data.destinations[i] = doc.imgs[i].href
                  /\ ~doc.imgs[i].hasA => data.destinations[i] = <<>>]_vars

\* the payload of a page with an unlinked image followed by a linked one
C21_Witness ==
    /\ hist.lastOp = "sentData"
    /\ toCoord # <<>>
    /\ toCoord[Len(toCoord)].data =
          [thumbnails |-> <<URL_PQ, URL_P>>, destinations |-> << <<>>, HREF_D >>]

\* C22: handling a payload leaves each accumulated list equal to what it was,
\* followed by the payload's entries in their order; no other step changes
\* either list.
C22_AppendOnly ==
    [][IF HandlerBegins /\ hist'.lastOp = "scrapedData"
       THEN /\ thumbnails' = thumbnails \o Head(toCoord).data.thumbnails
            /\ destinations' = destinations \o Head(toCoord).data.destinations
       ELSE UNCHANGED <<thumbnails, destinations>>]_vars

\* the second page's payload was put after the first page's
C22_Witness ==
    /\ hist.lastOp = "scrapedData"
    /\ hist.nPayloads = 2
    /\ thumbnails = <<URL_PQ, URL_P, URL_P>>
    /\ destinations = << <<>>, HREF_D, HREF_D >>

\* C23: every claim checks and inserts in one step: the name it returns was
\* not among the claimed names before the step and is among them after it,
\* nothing else being added; so the claims of a run, also those of handlers
\* that overlap, return different names.
C23_ClaimAtomic ==
    /\ [][Len(hist'.claims) = Len(hist.claims) + 1 =>
            LET c == hist'.claims[Len(hist'.claims)]
            IN  /\ c.got \notin downloadedFilenames
                /\ downloadedFilenames' = downloadedFilenames \cup {c.got}]_vars
    /\ [](\A i, j \in 1..Len(hist.claims) :
            i < j => hist.claims[i].got # hist.claims[j].got)

\* two handlers suspended at once, each having claimed a name for p.j
C23_Witness ==
    /\ scraperState.running
    /\ Len(tasks) = 2
    /\ tasks[1].i = 1 /\ tasks[2].i = 1
    /\ Len(hist.claims) = 2
    /\ hist.claims[1].base = BaseFilename(URL_P)
    /\ hist.claims[2].base = BaseFilename(URL_P)
    /\ hist.claims[1].got # hist.claims[2].got

\* C24: a failed download releases nothing: the claimed names before the
\* failure are claimed after it, every name claimed in the run stays claimed,
\* and the claim that follows a failure gets a name not claimed before.
C24_FailedClaimKept ==
    /\ [][(hist'.lastOp = "downloadFailed" /\ hist' # hist) =>
            /\ downloadedFilenames \subseteq downloadedFilenames'
            /\ Len(hist'.claims) = Len(hist.claims) + 1 =>
                  hist'.claims[Len(hist'.claims)].got \notin downloadedFilenames]_vars
    /\ [](\A i \in 1..Len(hist.claims) : hist.claims[i].got \in downloadedFilenames)

\* the download of p.j failed and the next claim of p.j got p_1.j
C24_Witness ==
    /\ scraperState.running
    /\ hist.lastOp = "downloadFailed"
    /\ Len(hist.claims) = 2
    /\ hist.claims[1].got = <<"p", ".", "j">>
    /\ hist.claims[2].base = <<"p", ".", "j">>
    /\ hist.claims[2].got = <<"p", "_", "1", ".", "j">>
    /\ <<"p", ".", "j">> \in downloadedFilenames

====
